---- MODULE Spec2Model ----
(***************************************************************************)
(* Model of src/main.py: a Streamlit script that loads a CSV of fitness    *)
(* measurements (load_data), computes the Pearson correlation matrix and   *)
(* its two extreme pairs (calculate_correlation) and renders a summary,    *)
(* two button-driven detail sections and a heatmap.                        *)
(*                                                                         *)
(* Representation                                                          *)
(*  - a column name is a sequence of tokens: a token is a separator        *)
(*    (SP = ' ', NBSP = U+00A0, US = '_') or a maximal run of other        *)
(*    characters (romanised);                                              *)
(*  - a raw CSV cell is a sequence of characters;                          *)
(*  - an optional number is <<>> (NaN) or <<v>>;                           *)
(*  - a frame is [columns |-> <<name, ...>>, data |-> <<row, ...>>], each  *)
(*    row a sequence of cells, one per column; column labels may repeat;   *)
(*  - a correlation coefficient r is <<>> (NaN) or the reduced fraction    *)
(*    <<p, q>> = sgn(r) * r^2, an exact image of r that keeps order and    *)
(*    equality of coefficients (all that the script uses of them).         *)
(***************************************************************************)
EXTENDS Integers, Sequences, FiniteSets, TLC

(* ---------------------------------------------------------------- bounds *)
\* most data rows in the input file
MaxRows == 2

(* ------------------------------------------------------------ characters *)
SP == " "
NBSP == "nbsp"
US == "_"
NaN == <<>>

(* ------------------------------------------------- generic list helpers *)
RECURSIVE Ascending(_)
\* the members of a set of integers, in increasing order
Ascending(S) ==
  IF S = {} THEN <<>>
  ELSE LET m == CHOOSE a \in S : \A b \in S : a <= b
       IN <<m>> \o Ascending(S \ {m})

Take(s, idx) == [k \in 1..Len(idx) |-> s[idx[k]]]

RECURSIVE Concat(_)
Concat(ss) == IF ss = <<>> THEN <<>> ELSE Head(ss) \o Concat(Tail(ss))

Range(s) == {s[k] : k \in 1..Len(s)}

(* ---------------------------------------------- load_data, lines 11-36 *)
IsSpace(c) == c \in {SP, NBSP}

RECURSIVE lstrip(_)
lstrip(name) ==
  IF name # <<>> /\ IsSpace(Head(name)) THEN lstrip(Tail(name)) ELSE name

RECURSIVE rstrip(_)
rstrip(name) ==
  IF name # <<>> /\ IsSpace(name[Len(name)])
  THEN rstrip(SubSeq(name, 1, Len(name) - 1)) ELSE name

\* str.strip(): leading and trailing whitespace removed
strip(name) == rstrip(lstrip(name))

\* str.replace(old, new)
replace(name, old, new) ==
  [k \in 1..Len(name) |-> IF name[k] = old THEN new ELSE name[k]]

\* line 17: .str.strip().str.replace(' ', '_').str.replace('\xa0', '_')
normalize(name) == replace(replace(strip(name), SP, US), NBSP, US)

\* lines 21-26, in the list's order
numeric_cols == <<
  <<"nai">>, <<"sinjang">>, <<"chejung">>, <<"chejibangyul">>,
  <<"heoridulle">>,
  <<"akryeok", US, "jwa">>, <<"akryeok", US, "u">>,
  <<"witmommaraolligi">>, <<"banbokjeompeu">>,
  <<"anjawitmomapeurogupigi">>,
  <<"BMI">>, <<"gyochawitmomireukigi">>, <<"wangbokoraedalligi">>,
  <<"10M", US, "4hoe", US, "wangbokdalligi">>,
  <<"jejari", US, "meollittwigi">>,
  <<"uijaeanjatdaireoseogi">>, <<"sangdaeakryeok">>, <<"pibudugyeophap">>,
  <<"baneungsigan">>, <<"jeoldaeakryeok">> >>

\* line 14 followed by line 17: the parsed file with its labels normalised
read_csv(file) ==
  [columns |-> [k \in 1..Len(file.header) |-> normalize(file.header[k])],
   data |-> file.rows]

\* variant: every label of the file is selected, allow-listed or not
available_numeric_cols_unfiltered(df) ==
  Take(df.columns,
       Ascending({k \in 1..Len(df.columns) :
                    \A j \in 1..(k - 1) : df.columns[j] # df.columns[k]}))

\* line 29: the allow-list names, in allow-list order, that label a column
available_numeric_cols(df) ==
  Take(numeric_cols,
       Ascending({k \in 1..Len(numeric_cols) : numeric_cols[k] \in Range(df.columns)}))

\* df[labels]: for each label in turn, every column carrying it
getitem(df, labels) ==
  LET idx == Concat([k \in 1..Len(labels) |->
                       Ascending({c \in 1..Len(df.columns) : df.columns[c] = labels[k]})])
  IN [columns |-> Take(df.columns, idx),
      data |-> [r \in 1..Len(df.data) |-> Take(df.data[r], idx)]]

Digits == <<"0", "1", "2", "3", "4", "5", "6", "7", "8", "9">>
IsDigit(ch) == ch \in Range(Digits)
DigitVal(ch) == (CHOOSE d \in 1..10 : Digits[d] = ch) - 1

RECURSIVE Decimal(_)
Decimal(cell) ==
  IF cell = <<>> THEN 0
  ELSE 10 * Decimal(SubSeq(cell, 1, Len(cell) - 1)) + DigitVal(cell[Len(cell)])

Parses(cell) == cell # <<>> /\ \A k \in 1..Len(cell) : IsDigit(cell[k])

\* variant: errors='raise': a text that is no number raises
to_numeric_errors_raise(cell) ==
  IF Parses(cell) THEN [raised |-> FALSE, value |-> <<Decimal(cell)>>]
  ELSE [raised |-> TRUE, value |-> NaN]

\* pd.to_numeric(cell, errors='coerce'): the number, or NaN; never raises
to_numeric(cell) ==
  IF Parses(cell) THEN [raised |-> FALSE, value |-> <<Decimal(cell)>>]
  ELSE [raised |-> FALSE, value |-> NaN]

\* line 30: .apply(pd.to_numeric, errors='coerce')
apply_to_numeric(df) ==
  LET conv == [r \in 1..Len(df.data) |->
                 [c \in 1..Len(df.columns) |-> to_numeric(df.data[r][c])]]
  IN [raised |-> \E r \in 1..Len(df.data) :
                   \E c \in 1..Len(df.columns) : conv[r][c].raised,
      columns |-> df.columns,
      data |-> [r \in 1..Len(df.data) |->
                  [c \in 1..Len(df.columns) |-> conv[r][c].value]]]

\* variant: the column drop is left out
dropna_columns_skipped(df) == df

\* line 33: dropna(axis=1, how='all')
dropna_columns(df) ==
  LET keep == Ascending({c \in 1..Len(df.columns) :
                           \E r \in 1..Len(df.data) : df.data[r][c] # NaN})
  IN [columns |-> Take(df.columns, keep),
      data |-> [r \in 1..Len(df.data) |-> Take(df.data[r], keep)]]

\* line 34: dropna(how='all')
dropna_rows(df) ==
  LET keep == Ascending({r \in 1..Len(df.data) :
                           \E c \in 1..Len(df.columns) : df.data[r][c] # NaN})
  IN [columns |-> df.columns, data |-> Take(df.data, keep)]

EmptyFrame == [columns |-> <<>>, data |-> <<>>]

\* lines 11-36 on a file that parses: the cleaned frame, or the error raised
load_data(file) ==
  LET df == read_csv(file)
      df_numeric == apply_to_numeric(getitem(df, available_numeric_cols(df)))
  IN IF df_numeric.raised
     THEN [raised |-> "ValueError", df |-> EmptyFrame]
     ELSE [raised |-> "none",
           df |-> dropna_rows(dropna_columns(
                    [columns |-> df_numeric.columns, data |-> df_numeric.data]))]

\* DataFrame.empty: some axis has length zero
empty(df) == Len(df.columns) = 0 \/ Len(df.data) = 0

(* ---------------------------------- calculate_correlation, lines 40-59 *)
RECURSIVE Sum(_)
Sum(s) == IF s = <<>> THEN 0 ELSE Head(s) + Sum(Tail(s))

RECURSIVE GCD(_, _)
GCD(a, b) == IF b = 0 THEN a ELSE GCD(b, a % b)

Abs(a) == IF a < 0 THEN -a ELSE a

\* the fraction p/q (q > 0) in lowest terms
Frac(p, q) == LET g == GCD(Abs(p), q) IN <<p \div g, q \div g>>

\* a < b and a <= b on coefficients that are not NaN
Less(a, b) == a[1] * b[2] < b[1] * a[2]
Leq(a, b) == a[1] * b[2] <= b[1] * a[2]

\* DataFrame.corr()'s default min_periods
min_periods == 1

\* Pearson's r of columns i and j over the rows where both are present:
\* NaN with fewer than min_periods such rows or a zero variance
pearson(df, i, j) ==
  LET rows == Ascending({r \in 1..Len(df.data) :
                           df.data[r][i] # NaN /\ df.data[r][j] # NaN})
      n == Len(rows)
      xs == [k \in 1..n |-> df.data[rows[k]][i][1]]
      ys == [k \in 1..n |-> df.data[rows[k]][j][1]]
      Sxy == n * Sum([k \in 1..n |-> xs[k] * ys[k]]) - Sum(xs) * Sum(ys)
      Sxx == n * Sum([k \in 1..n |-> xs[k] * xs[k]]) - Sum(xs) * Sum(xs)
      Syy == n * Sum([k \in 1..n |-> ys[k] * ys[k]]) - Sum(ys) * Sum(ys)
  IN IF n < min_periods \/ Sxx * Syy = 0 THEN NaN
     ELSE Frac((IF Sxy < 0 THEN -1 ELSE 1) * Sxy * Sxy, Sxx * Syy)

\* line 43: df.corr(); values[r][c] is the entry of row r and column c
corr(df) ==
  [labels |-> df.columns,
   values |-> [r \in 1..Len(df.columns) |->
                 [c \in 1..Len(df.columns) |-> pearson(df, r, c)]]]

\* line 46: np.fill_diagonal(corr_matrix.values, np.nan)
fill_diagonal(m) ==
  [labels |-> m.labels,
   values |-> [r \in 1..Len(m.labels) |->
                 [c \in 1..Len(m.labels) |->
                    IF r = c THEN NaN ELSE m.values[r][c]]]]

\* line 49: corr_matrix.unstack(): one entry per cell, column by column,
\* indexed by (column label, row label)
unstack(m) ==
  LET n == Len(m.labels)
  IN [k \in 1..(n * n) |->
        LET c == ((k - 1) \div n) + 1
            r == ((k - 1) % n) + 1
        IN [index |-> <<m.labels[c], m.labels[r]>>, value |-> m.values[r][c]]]

RECURSIVE Descending(_)
\* a set of coefficients, largest first
Descending(V) ==
  IF V = {} THEN <<>>
  ELSE LET m == CHOOSE a \in V : \A b \in V : Leq(b, a)
       IN <<m>> \o Descending(V \ {m})

RECURSIVE Increasing(_)
Increasing(V) ==
  IF V = {} THEN <<>>
  ELSE LET m == CHOOSE a \in V : \A b \in V : Leq(a, b)
       IN <<m>> \o Increasing(V \ {m})

\* variant: sort_values() with its default ascending=True
sorted_values_ascending(series) ==
  Increasing({series[k].value : k \in 1..Len(series)} \ {NaN})

\* the distinct values that are not NaN, in sort_values(ascending=False) order
sorted_values(series) ==
  Descending({series[k].value : k \in 1..Len(series)} \ {NaN})

RECURSIVE Representatives(_, _)
\* one entry for each value of vals, in that order: drop_duplicates() keeps
\* the first entry of each value, and which of several equal entries the
\* default (unstable) sort puts first is not determined
Representatives(series, vals) ==
  IF vals = <<>> THEN {<<>>}
  ELSE {<<e>> \o rest :
          e \in {series[k] : k \in {i \in 1..Len(series) :
                                      series[i].value = Head(vals)}},
          rest \in Representatives(series, Tail(vals))}

\* the NaN entries come last, in their original order: the first one is kept
first_nan(series) ==
  LET nans == {k \in 1..Len(series) : series[k].value = NaN}
  IN IF nans = {} THEN <<>> ELSE <<series[Ascending(nans)[1]]>>

\* line 49: .sort_values(ascending=False).drop_duplicates(), every outcome
sort_values_drop_duplicates(series) ==
  {s \o first_nan(series) : s \in Representatives(series, sorted_values(series))}

\* Series.dropna()
dropna(series) == SelectSeq(series, LAMBDA e : e.value # NaN)

\* whether a label occurs twice
duplicated(labels) ==
  \E a, b \in 1..Len(labels) : a # b /\ labels[a] = labels[b]

EmptyMatrix == [labels |-> <<>>, values |-> <<>>]

Raised(name) ==
  [raised |-> name, positive_pair |-> <<>>, positive_corr |-> NaN,
   negative_pair |-> <<>>, negative_corr |-> NaN, corr_matrix |-> EmptyMatrix]

\* lines 43-49: every outcome of the first half of calculate_correlation(df),
\* its locals corr_matrix and corr_series. On repeated column labels the
\* outcome depends on the pandas build: from 2.1 on unstack() rejects them
\* with a ValueError, before that it accepts them
candidates(df) ==
  LET corr_matrix == fill_diagonal(corr(df))
  IN (IF duplicated(df.columns)
      THEN {[raised |-> "ValueError", corr_matrix |-> EmptyMatrix,
             corr_series |-> <<>>]}
      ELSE {})
     \cup {[raised |-> "none", corr_matrix |-> corr_matrix, corr_series |-> s] :
             s \in sort_values_drop_duplicates(unstack(corr_matrix))}

\* lines 52-59: the second half, on the locals of the first
extremes(corr_matrix, corr_series) ==
  LET defined == dropna(corr_series)
  IN IF defined = <<>> THEN Raised("IndexError")
     ELSE [raised |-> "none",
           positive_pair |-> corr_series[1].index,
           positive_corr |-> corr_series[1].value,
           negative_pair |-> defined[Len(defined)].index,
           negative_corr |-> defined[Len(defined)].value,
           corr_matrix |-> corr_matrix]

(* ------------------------------------------ heatmap table, lines 143-151 *)
\* line 143-144: corr_matrix.stack(): one row per cell that is not NaN, row
\* by row, as (Variable_1, Variable_2, Correlation)
stack(m) ==
  LET n == Len(m.labels)
      cells == [k \in 1..(n * n) |->
                  LET r == ((k - 1) \div n) + 1
                      c == ((k - 1) % n) + 1
                  IN [Variable_1 |-> m.labels[r], Variable_2 |-> m.labels[c],
                      Correlation |-> m.values[r][c]]]
  IN SelectSeq(cells, LAMBDA e : e.Correlation # NaN)

\* line 147: the rows whose two names differ
drop_self_pairs(rows) ==
  SelectSeq(rows, LAMBDA e : e.Variable_1 # e.Variable_2)

\* line 150: tuple(sorted((Variable_1, Variable_2))), the key of the
\* unordered pair of names
sorted_pair(e) == {e.Variable_1, e.Variable_2}

\* line 151: drop_duplicates(subset=['sorted_pair']) keeps each key's first row
drop_duplicates_sorted_pair(rows) ==
  Take(rows, Ascending({k \in 1..Len(rows) :
                          \A j \in 1..(k - 1) :
                            sorted_pair(rows[j]) # sorted_pair(rows[k])}))

\* lines 143-151
heatmap_table(corr_matrix) ==
  drop_duplicates_sorted_pair(drop_self_pairs(stack(corr_matrix)))

(* ----------------------------------------------------------- the inputs *)
\* header rows of the input files: labels needing strip and both replaces,
\* columns in another order than the allow-list, two labels that normalise
\* to the same name, labels outside the allow-list
Headers ==
  { << <<"chejung">>, <<"sinjang", SP>>, <<"akryeok", NBSP, "jwa">> >>,
    << <<"sinjang">>, <<SP, "sinjang">>, <<"chejung">> >>,
    << <<"ireum">>, <<"akryeok", SP, "u">> >>,
    << <<"ireum">> >> }

\* cell texts: two numbers and a text that is no number
RawCells == { <<"1">>, <<"2">>, <<"x">> }

Malformed == [parses |-> FALSE, header |-> <<>>, rows |-> <<>>]

Files ==
  {Malformed} \cup
  UNION { UNION { { [parses |-> TRUE, header |-> h, rows |-> rs] :
                      rs \in [1..n -> [1..Len(h) -> RawCells]] } :
                  n \in 0..MaxRows } :
          h \in Headers }

\* lines 171-172: the default file name
DefaultFile == "fitness data.xlsx - KS_NFA_FTNESS_MESURE_ITEM_MESUR.csv"

NoResult == Raised("unset")
NoLocals == [raised |-> "unset", corr_matrix |-> EmptyMatrix, corr_series |-> <<>>]

(* ------------------------------------------------------------ the state *)
VARIABLES
  file,           \* the CSV file at the configured path
  uploaded_file,  \* st.session_state.uploaded_file: <<>> when unset
  load_cache,     \* st.cache_data of load_data: <<>> or <<frame>>
  corr_cache,     \* st.cache_data of calculate_correlation: <<>> or <<result>>
  pc,             \* the script's position in the current pass
  clicked,        \* the button whose click started the pass
  rendered,       \* the elements the pass has put on the page
  exception,      \* the uncaught exception that ended the pass
  df_data,        \* line 66
  locals,         \* calculate_correlation's locals while it runs
  result,         \* line 72
  corr_df         \* lines 143-151

vars == <<file, uploaded_file, load_cache, corr_cache, pc,
          clicked, rendered, exception, df_data, locals, result, corr_df>>

\* a pass starts on a session whose file name is unset (a fresh session) or
\* was stored by the host before the pass
Init ==
  /\ file \in Files
  /\ uploaded_file \in {<<>>, <<DefaultFile>>}
  /\ load_cache = <<>>
  /\ corr_cache = <<>>
  /\ pc = "title"
  /\ clicked = "none"
  /\ rendered = {}
  /\ exception = "none"
  /\ df_data = EmptyFrame
  /\ locals = NoLocals
  /\ result = NoResult
  /\ corr_df = <<>>

\* an uncaught exception: Streamlit shows it and the pass ends there
Raise(name) == exception' = name /\ pc' = "done"

\* lines 62-63
Title ==
  /\ pc = "title"
  /\ rendered' = rendered \cup {"title"}
  /\ pc' = "load"
  /\ UNCHANGED <<locals, file, uploaded_file, load_cache, corr_cache,
                 clicked, exception, df_data, result, corr_df>>

\* line 66: load_data(f'./{st.session_state.uploaded_file}')
Load ==
  /\ pc = "load"
  /\ IF uploaded_file = <<>>
     THEN Raise("AttributeError") /\ UNCHANGED <<load_cache, df_data>>
     ELSE IF load_cache # <<>>
     THEN df_data' = load_cache[1] /\ pc' = "check"
          /\ UNCHANGED <<load_cache, exception>>
     ELSE IF ~file.parses
     THEN Raise("ParserError") /\ UNCHANGED <<load_cache, df_data>>
     ELSE LET loaded == load_data(file)
          IN IF loaded.raised # "none"
             THEN Raise(loaded.raised) /\ UNCHANGED <<load_cache, df_data>>
             ELSE /\ df_data' = loaded.df
                  /\ load_cache' = <<loaded.df>>
                  /\ pc' = "check"
                  /\ UNCHANGED exception
  /\ UNCHANGED <<locals, file, uploaded_file, corr_cache, clicked, rendered, result,
                 corr_df>>

\* lines 68-70
CheckEmpty ==
  /\ pc = "check"
  /\ IF empty(df_data)
     THEN rendered' = rendered \cup {"error"} /\ pc' = "session"
     ELSE rendered' = rendered /\ pc' = "analyze"
  /\ UNCHANGED <<locals, file, uploaded_file, load_cache, corr_cache,
                 clicked, exception, df_data, result, corr_df>>

\* line 72, entering calculate_correlation: the cached result, or lines 43-49
Analyze ==
  /\ pc = "analyze"
  /\ IF corr_cache # <<>>
     THEN /\ result' = corr_cache[1]
          /\ pc' = "summary"
          /\ UNCHANGED <<locals, exception>>
     ELSE \E c \in candidates(df_data) :
            IF c.raised # "none"
            THEN Raise(c.raised) /\ UNCHANGED <<locals, result>>
            ELSE /\ locals' = c
                 /\ pc' = "extremes"
                 /\ UNCHANGED <<result, exception>>
  /\ UNCHANGED <<file, uploaded_file, load_cache, corr_cache, clicked, rendered,
                 df_data, corr_df>>

\* lines 52-59, and the return to line 72
Extremes ==
  /\ pc = "extremes"
  /\ LET r == extremes(locals.corr_matrix, locals.corr_series)
     IN IF r.raised # "none"
        THEN Raise(r.raised) /\ UNCHANGED <<result, corr_cache>>
        ELSE /\ result' = r
             /\ corr_cache' = <<r>>
             /\ pc' = "summary"
             /\ UNCHANGED exception
  /\ locals' = NoLocals
  /\ UNCHANGED <<file, uploaded_file, load_cache, clicked, rendered, df_data,
                 corr_df>>

\* lines 74-95
Summary ==
  /\ pc = "summary"
  /\ rendered' = rendered \cup {"summary"}
  /\ pc' = "positive"
  /\ UNCHANGED <<locals, file, uploaded_file, load_cache, corr_cache,
                 clicked, exception, df_data, result, corr_df>>

\* df_data[label] is a frame, not a column, when the label occurs twice
selects_frame(df, label) ==
  Cardinality({c \in 1..Len(df.columns) : df.columns[c] = label}) > 1

\* lines 109-115 and 124-130: the outcomes of building the detail chart.
\* pd.DataFrame({'X': .., 'Y': ..}) raises when both values are frames, and
\* what it does with one frame and one column depends on their lengths. The
\* table that results is handed to st.altair_chart, which serialises what
\* to_dict() gives: the page gets a chart element, the pass goes on
chart_outcomes(df, pair) ==
  IF selects_frame(df, pair[1]) /\ selects_frame(df, pair[2])
  THEN {"ValueError"}
  ELSE IF selects_frame(df, pair[1]) \/ selects_frame(df, pair[2])
  THEN {"ValueError", "none"}
  ELSE {"none"}

\* lines 101-116
PositiveButton ==
  /\ pc = "positive"
  /\ IF clicked = "positive"
     THEN \E o \in chart_outcomes(df_data, result.positive_pair) :
            IF o = "none"
            THEN /\ rendered' = rendered \cup {"positive_button",
                                               "positive_detail", "positive_chart"}
                 /\ pc' = "negative"
                 /\ UNCHANGED exception
            ELSE /\ rendered' = rendered \cup {"positive_button", "positive_detail"}
                 /\ Raise(o)
     ELSE /\ rendered' = rendered \cup {"positive_button"}
          /\ pc' = "negative"
          /\ UNCHANGED exception
  /\ UNCHANGED <<locals, file, uploaded_file, load_cache, corr_cache,
                 clicked, df_data, result, corr_df>>

\* lines 118-131
NegativeButton ==
  /\ pc = "negative"
  /\ IF clicked = "negative"
     THEN \E o \in chart_outcomes(df_data, result.negative_pair) :
            IF o = "none"
            THEN /\ rendered' = rendered \cup {"negative_button",
                                               "negative_detail", "negative_chart"}
                 /\ pc' = "heatmap"
                 /\ UNCHANGED exception
            ELSE /\ rendered' = rendered \cup {"negative_button", "negative_detail"}
                 /\ Raise(o)
     ELSE /\ rendered' = rendered \cup {"negative_button"}
          /\ pc' = "heatmap"
          /\ UNCHANGED exception
  /\ UNCHANGED <<locals, file, uploaded_file, load_cache, corr_cache,
                 clicked, df_data, result, corr_df>>

\* line 150 on a table left without rows: apply(axis=1) of an empty frame
\* gives, by the pandas build, an empty column or a copy of the frame, and
\* assigning the copy to one column raises
sorted_pair_outcomes(rows) ==
  IF rows = <<>> THEN {"ValueError", "none"} ELSE {"none"}

\* lines 133-162
Heatmap ==
  /\ pc = "heatmap"
  /\ \E o \in sorted_pair_outcomes(drop_self_pairs(stack(result.corr_matrix))) :
       IF o = "none"
       THEN /\ corr_df' = heatmap_table(result.corr_matrix)
            /\ rendered' = rendered \cup {"heatmap"}
            /\ pc' = "session"
            /\ UNCHANGED exception
       ELSE Raise(o) /\ UNCHANGED <<corr_df, rendered>>
  /\ UNCHANGED <<locals, file, uploaded_file, load_cache, corr_cache,
                 clicked, df_data, result>>

\* lines 171-172
InitSession ==
  /\ pc = "session"
  /\ uploaded_file' = IF uploaded_file = <<>> THEN <<DefaultFile>>
                      ELSE uploaded_file
  /\ pc' = "done"
  /\ UNCHANGED <<locals, file, load_cache, corr_cache, clicked, rendered,
                 exception, df_data, result, corr_df>>

\* the buttons the finished pass left on the page
Buttons ==
  {b \in {"positive", "negative"} :
     (b = "positive" /\ "positive_button" \in rendered)
     \/ (b = "negative" /\ "negative_button" \in rendered)}

\* a new pass over the script: a reload, or a click on a button of the page
Rerun ==
  /\ pc = "done"
  /\ clicked' \in {"none"} \cup Buttons
  /\ pc' = "title"
  /\ rendered' = {}
  /\ exception' = "none"
  /\ df_data' = EmptyFrame
  /\ result' = NoResult
  /\ corr_df' = <<>>
  /\ UNCHANGED locals
  /\ UNCHANGED <<file, uploaded_file, load_cache, corr_cache>>

Next ==
  \/ Title
  \/ Load
  \/ CheckEmpty
  \/ Analyze
  \/ Extremes
  \/ Summary
  \/ PositiveButton
  \/ NegativeButton
  \/ Heatmap
  \/ InitSession
  \/ Rerun

Spec == Init /\ [][Next]_vars

(* ------------------------------------------------------------ properties *)
\* the sections that show analysis results
ResultSections ==
  {"summary", "positive_detail", "positive_chart", "negative_detail",
   "negative_chart", "heatmap"}

\* the coefficients of the cleaned frame's pairs of distinct columns
Coefficient(i, j) == pearson(df_data, i, j)
ColumnPairs ==
  {p \in (1..Len(df_data.columns)) \X (1..Len(df_data.columns)) : p[1] < p[2]}
DefinedPairs == {p \in ColumnPairs : Coefficient(p[1], p[2]) # NaN}
Label(i) == df_data.columns[i]

\* C1: every column of the frame load_data returns carries a name of the
\* allow-list numeric_cols; a column of any other name is absent, numeric or not
C1_OnlyAllowListedColumns ==
  /\ \A c \in 1..Len(df_data.columns) : df_data.columns[c] \in Range(numeric_cols)
  /\ load_cache # <<>> =>
       \A c \in 1..Len(load_cache[1].columns) :
         load_cache[1].columns[c] \in Range(numeric_cols)

\* a file whose first column is outside the allow-list and all numbers, loaded
\* into a frame that is not empty
C1_Witness ==
  /\ pc = "check"
  /\ ~empty(df_data)
  /\ file.header[1] = <<"ireum">>
  /\ \A r \in 1..Len(file.rows) : Parses(file.rows[r][1])

\* C2: the frame load_data returns has no column and no row whose values are
\* all missing
C2_NoAllMissingRowOrColumn ==
  /\ \A c \in 1..Len(df_data.columns) :
       \E r \in 1..Len(df_data.data) : df_data.data[r][c] # NaN
  /\ \A r \in 1..Len(df_data.data) :
       \E c \in 1..Len(df_data.columns) : df_data.data[r][c] # NaN

\* an allow-listed column and a row were dropped as all missing, and the rest
\* was kept
C2_Witness ==
  /\ pc = "check"
  /\ ~empty(df_data)
  /\ Len(file.header) = 3
  /\ \A k \in 1..3 : normalize(file.header[k]) \in Range(numeric_cols)
  /\ Len(df_data.columns) = 2
  /\ Len(df_data.data) < Len(file.rows)

C4_PairsNameTwoColumns ==
  result.raised = "none" =>
    /\ result.positive_pair[1] # result.positive_pair[2]
    /\ result.negative_pair[1] # result.negative_pair[2]

\* C5: a pass that analysed a frame without a pair of columns that has a
\* coefficient ends with an InsufficientDataError and shows no result section
C5_InsufficientDataError ==
  (pc = "done" /\ ~empty(df_data) /\ DefinedPairs = {}) =>
    /\ exception = "InsufficientDataError"
    /\ rendered \cap ResultSections = {}

\* the number a cell text spells
Numerals == {<<"1">>, <<"2">>}
Value(cell) == IF cell = <<"1">> THEN <<1>> ELSE IF cell = <<"2">> THEN <<2>> ELSE NaN

\* the file's columns that the cleaned frame keeps: by allow-list position,
\* then file position, those of an allow-listed name with a number in them
KeptColumns ==
  LET names == [k \in 1..Len(file.header) |-> normalize(file.header[k])]
      has == {k \in 1..Len(file.header) :
                \E r \in 1..Len(file.rows) : file.rows[r][k] \in Numerals}
  IN Concat([a \in 1..Len(numeric_cols) |->
               Ascending({k \in has : names[k] = numeric_cols[a]})])

\* the file's rows that the cleaned frame keeps
KeptRows ==
  LET cols == Range(KeptColumns)
  IN Ascending({r \in 1..Len(file.rows) :
                  \E k \in cols : file.rows[r][k] \in Numerals})

\* C6: load_data fails on no file that parses, and its frame holds, for each
\* cell of an allow-listed column, the number the cell spells, or a missing
\* value where it spells none
C6_CoercionNeverFails ==
  /\ (pc = "done" /\ exception # "none" /\ uploaded_file # <<>>
        /\ load_cache = <<>>) => ~file.parses
  /\ (pc = "check" /\ load_cache # <<>>) =>
       LET rows == KeptRows
           cols == KeptColumns
       IN /\ load_cache[1].columns =
               [j \in 1..Len(cols) |-> normalize(file.header[cols[j]])]
          /\ load_cache[1].data =
               [i \in 1..Len(rows) |->
                  [j \in 1..Len(cols) |-> Value(file.rows[rows[i]][cols[j]])]]

\* a loaded row that holds a number next to a cell that spelled none
C6_Witness ==
  /\ pc = "check"
  /\ load_cache # <<>>
  /\ \E r \in 1..Len(df_data.data) :
       /\ \E c \in 1..Len(df_data.columns) : df_data.data[r][c] = NaN
       /\ \E c \in 1..Len(df_data.columns) : df_data.data[r][c] # NaN

\* C7: a finished pass shows the full result (summary and heatmap, nothing
\* raised) or one error and no result section; on an empty cleaned frame it
\* shows the error message without analysing, which differs from what a file
\* that does not parse shows
C7_FullResultOrOneError ==
  pc = "done" =>
    /\ \/ /\ exception = "none"
          /\ "error" \notin rendered
          /\ {"summary", "heatmap"} \subseteq rendered
       \/ /\ rendered \cap ResultSections = {}
          /\ (exception # "none") # ("error" \in rendered)
    /\ (load_cache # <<>> /\ empty(load_cache[1]) /\ uploaded_file # <<>>) =>
         ("error" \in rendered /\ exception = "none" /\ result = NoResult)
    /\ (uploaded_file # <<>> /\ ~file.parses) =>
         ("error" \notin rendered /\ exception # "none")

\* C8: the heatmap table holds, for each pair of distinct columns that has a
\* coefficient, exactly one row (in one of the two directions) carrying it,
\* and no row whose two names are equal
C8_HeatmapTable ==
  "heatmap" \in rendered =>
    /\ \A p \in DefinedPairs :
         Cardinality({k \in 1..Len(corr_df) :
                        /\ {corr_df[k].Variable_1, corr_df[k].Variable_2}
                             = {Label(p[1]), Label(p[2])}
                        /\ corr_df[k].Correlation = Coefficient(p[1], p[2])}) = 1
    /\ \A k \in 1..Len(corr_df) : corr_df[k].Variable_1 # corr_df[k].Variable_2

\* C9: when line 66 reads st.session_state.uploaded_file, it holds a value
C9_FileNameSetWhenRead ==
  pc = "load" => uploaded_file # <<>>

\* C10: the candidate series of calculate_correlation holds exactly one entry
\* for each pair of distinct columns that has a coefficient
C10_OneCandidatePerPair ==
  pc = "extremes" =>
    \A p \in DefinedPairs :
      Cardinality({k \in 1..Len(locals.corr_series) :
                     /\ locals.corr_series[k].value # NaN
                     /\ {locals.corr_series[k].index[1],
                         locals.corr_series[k].index[2]}
                          = {Label(p[1]), Label(p[2])}}) = 1
====
